---- MODULE Spec2Model ----
(***************************************************************************)
(* A model of package dawg (src/dawg/dawg.go, src/dawg/node.go): the       *)
(* incremental builder of a minimal acyclic word graph, its queries and    *)
(* its flattened export.                                                   *)
(*                                                                         *)
(* A Go string is a sequence of bytes; a byte is its numeric value.  A     *)
(* *Node is the ID of the node it points to: DAWG.node() gives every node  *)
(* it allocates a fresh ID, and the root, a field of the DAWG, has ID 0.   *)
(* A Go map is a function; a nil map is the function with empty domain.    *)
(***************************************************************************)
EXTENDS Integers, Sequences, FiniteSets, TLC

\* The longest word handed to Insert, Lookup and LookupPrefix.
MaxLen == 2

\* The number of words Insert accepts in one run.
MaxWords == 3

\* The bytes words are made of: '1' and '_', which are also the digit and
\* the separator Node.key writes.
Alphabet == {49, 95}

RECURSIVE WordsOfLen(_)
WordsOfLen(n) ==
  IF n = 0 THEN {<<>>}
  ELSE {Append(w, b) : w \in WordsOfLen(n - 1), b \in Alphabet}

Words == UNION {WordsOfLen(n) : n \in 0..MaxLen}

VARIABLES
  nodes,      \* the heap of Node values: ID -> [F, C]
  seq,        \* DAWG.seq
  prevWord,   \* DAWG.prevWord
  unchecked,  \* DAWG.unchecked
  spare,      \* the entries of unchecked's array past its length
  minimized,  \* DAWG.minimized: key string -> node
  panicked,   \* a panic has unwound the caller
  inserted,   \* history: the words Insert has accepted
  finished,   \* history: Finish has returned and Insert was not called since
  keyed,      \* history: the nodes minimize has computed the key of, in order
  pc,         \* "idle", "loop" (inside LookupPrefix's second loop), "returned"
  q,          \* the query in progress or just returned: [op, arg]
  curr,       \* LookupPrefix's local curr
  buf,        \* LookupPrefix's local buf
  ret         \* what the query returned: [ok, str, n, flat]

heap == <<nodes, seq, prevWord, unchecked, spare, minimized>>
hist == <<inserted, finished, keyed>>
query == <<pc, q, curr, buf, ret>>
vars == <<nodes, seq, prevWord, unchecked, spare, minimized, panicked, inserted,
          finished, keyed, pc, q, curr, buf, ret>>

root == 0

NoMap == <<>>

NoQuery == [op |-> "none", arg |-> <<>>]
NoRet == [ok |-> FALSE, str |-> <<>>, n |-> 0, flat |-> <<>>]

----------------------------------------------------------------------------
\* Strings

min(a, b) == IF a < b THEN a ELSE b

RECURSIVE lcpFrom(_, _, _, _)
lcpFrom(a, b, i, n) ==
  IF i < n
  THEN IF a[i + 1] # b[i + 1] THEN i ELSE lcpFrom(a, b, i + 1, n)
  ELSE n

lcpLength(a, b) == lcpFrom(a, b, 0, min(Len(a), Len(b)))

\* Go's a <= b on strings: bytewise, a proper prefix is the smaller.
RECURSIVE StrLEFrom(_, _, _)
StrLEFrom(a, b, i) ==
  IF i > Len(a) THEN TRUE
  ELSE IF i > Len(b) THEN FALSE
  ELSE IF a[i] # b[i] THEN a[i] < b[i]
  ELSE StrLEFrom(a, b, i + 1)

StrLE(a, b) == StrLEFrom(a, b, 1)

----------------------------------------------------------------------------
\* node.go

RECURSIVE numDigitsFrom(_, _)
numDigitsFrom(n, num) ==
  IF n > 9 THEN numDigitsFrom(n \div 10, num + 1) ELSE num

numDigits(n) == numDigitsFrom(n, 1)

SetMin(S) == CHOOSE x \in S : \A y \in S : x <= y

RECURSIVE SortDesc(_)
SortDesc(S) ==
  IF S = {} THEN <<>>
  ELSE LET x == SetMin(S) IN SortDesc(S \ {x}) \o <<x>>

\* sortedKeys with the comparison of its sort.Slice turned round.
sortedKeysDescending(m) == SortDesc(DOMAIN m)

RECURSIVE SortAsc(_)
SortAsc(S) ==
  IF S = {} THEN <<>>
  ELSE LET x == SetMin(S) IN <<x>> \o SortAsc(S \ {x})

sortedKeys(m) == SortAsc(DOMAIN m)

\* strconv.AppendInt(buf, n, 10) for n >= 0: the decimal digits of n.
RECURSIVE AppendInt(_, _)
AppendInt(b, n) ==
  IF n < 10 THEN Append(b, 48 + n)
  ELSE Append(AppendInt(b, n \div 10), 48 + (n % 10))

RECURSIVE keySize(_, _, _)
keySize(m, keys, i) ==
  IF i > Len(keys) THEN 0
  ELSE numDigits(m[keys[i]]) + 1 + keySize(m, keys, i + 1)

\* The identities of key without the '_' before each of them.
RECURSIVE keyIDsNoSeparator(_, _, _, _)
keyIDsNoSeparator(b, m, keys, i) ==
  IF i > Len(keys) THEN b
  ELSE keyIDsNoSeparator(AppendInt(b, m[keys[i]]), m, keys, i + 1)

RECURSIVE keyIDs(_, _, _, _)
keyIDs(b, m, keys, i) ==
  IF i > Len(keys) THEN b
  ELSE keyIDs(AppendInt(Append(b, 95), m[keys[i]]), m, keys, i + 1)

\* (n *Node).key(): [str, panic]; panic is the len(buf) != size check.
key(ns, n) ==
  LET m == ns[n].C
      keys == sortedKeys(m)
      size == 2 + keySize(m, keys, 1) + Len(keys)
      head == <<IF ns[n].F THEN 49 ELSE 48, 95>>
      b == keyIDs(head \o keys, m, keys, 1)
  IN [str |-> b, panic |-> Len(b) # size]

----------------------------------------------------------------------------
\* dawg.go: the builder

\* d.unchecked = d.unchecked[:to].  A slice expression may reach past the
\* length, up to the capacity, and brings back the entries that lie there;
\* past the capacity it panics.  The capacity modelled is the greatest length
\* the slice has had, the least that append can have allocated.
reslice(d, to) ==
  LET len == Len(d.unchecked)
  IN IF to <= len
     THEN [d EXCEPT !.unchecked = SubSeq(@, 1, to),
                    !.spare = SubSeq(d.unchecked, to + 1, len) \o @]
     ELSE IF to - len <= Len(d.spare)
     THEN [d EXCEPT !.unchecked = @ \o SubSeq(d.spare, 1, to - len),
                    !.spare = SubSeq(@, to - len + 1, Len(@))]
     ELSE [d EXCEPT !.panic = TRUE]

\* The record of one key computation of minimize: the node, its flag and
\* edges at that moment, and whether the registry then held all its children.
KeyedEntry(d, c) ==
  [c |-> c, node |-> d.nodes[c],
   canonical |-> \A b \in DOMAIN d.nodes[c].C :
                   \E k \in DOMAIN d.minimized : d.minimized[k] = d.nodes[c].C[b]]

\* minimize that registers no node.
RECURSIVE minimizeFromNoRegister(_, _, _)
minimizeFromNoRegister(d, i, to) ==
  IF i >= to
  THEN LET n == d.unchecked[i + 1]
           k == key(d.nodes, n.c)
           dk == [d EXCEPT !.keyed = Append(@, KeyedEntry(d, n.c))]
       IN IF k.panic THEN [d EXCEPT !.panic = TRUE]
          ELSE IF k.str \in DOMAIN d.minimized
          THEN minimizeFromNoRegister(
                 [dk EXCEPT !.nodes[n.p].C = (n.b :> d.minimized[k.str]) @@ @],
                 i - 1, to)
          ELSE minimizeFromNoRegister(dk, i - 1, to)
  ELSE reslice(d, to)

\* minimize that leaves the chain as long as it is.
RECURSIVE minimizeFromKeepChain(_, _, _)
minimizeFromKeepChain(d, i, to) ==
  IF i >= to
  THEN LET n == d.unchecked[i + 1]
           k == key(d.nodes, n.c)
           dk == [d EXCEPT !.keyed = Append(@, KeyedEntry(d, n.c))]
       IN IF k.panic THEN [d EXCEPT !.panic = TRUE]
          ELSE IF k.str \in DOMAIN d.minimized
          THEN minimizeFromKeepChain(
                 [dk EXCEPT !.nodes[n.p].C = (n.b :> d.minimized[k.str]) @@ @],
                 i - 1, to)
          ELSE minimizeFromKeepChain(
                 [dk EXCEPT !.minimized = (k.str :> n.c) @@ @],
                 i - 1, to)
  ELSE d

\* minimize without the lookup in the registry: every node is registered.
RECURSIVE minimizeFromNoMerge(_, _, _)
minimizeFromNoMerge(d, i, to) ==
  IF i >= to
  THEN LET n == d.unchecked[i + 1]
           k == key(d.nodes, n.c)
           dk == [d EXCEPT !.keyed = Append(@, KeyedEntry(d, n.c))]
       IN IF k.panic THEN [d EXCEPT !.panic = TRUE]
          ELSE minimizeFromNoMerge(
                 [dk EXCEPT !.minimized = (k.str :> n.c) @@ @],
                 i - 1, to)
  ELSE reslice(d, to)

\* (d *DAWG).minimize(to), from index i down: the builder's fields after it.
RECURSIVE minimizeFrom(_, _, _)
minimizeFrom(d, i, to) ==
  IF i >= to
  THEN LET n == d.unchecked[i + 1]
           k == key(d.nodes, n.c)
           dk == [d EXCEPT !.keyed = Append(@, KeyedEntry(d, n.c))]
       IN IF k.panic THEN [d EXCEPT !.panic = TRUE]
          ELSE IF k.str \in DOMAIN d.minimized
          THEN minimizeFrom(
                 [dk EXCEPT !.nodes[n.p].C = (n.b :> d.minimized[k.str]) @@ @],
                 i - 1, to)
          ELSE minimizeFrom(
                 [dk EXCEPT !.minimized = (k.str :> n.c) @@ @],
                 i - 1, to)
  ELSE reslice(d, to)

minimize(d, to) == minimizeFrom(d, Len(d.unchecked) - 1, to)

\* The loop of Insert with the new edge leading to the node it leaves.
RECURSIVE insertFromSelfEdge(_, _, _, _)
insertFromSelfEdge(d, word, i, c) ==
  IF i < Len(word)
  THEN LET b == word[i + 1]
           next == d.seq + 1
           d1 == [d EXCEPT
                    !.seq = next,
                    !.nodes = (next :> [F |-> FALSE, C |-> NoMap]) @@ @]
           d2 == [d1 EXCEPT
                    !.nodes[c].C = (b :> c) @@ @,
                    !.unchecked = Append(@, [p |-> c, c |-> next, b |-> b]),
                    !.spare = IF @ = <<>> THEN @ ELSE Tail(@)]
       IN insertFromSelfEdge(d2, word, i + 1, next)
  ELSE [d EXCEPT !.nodes[c].F = TRUE]

\* (d *DAWG).node() with the loop body of Insert that uses it.
RECURSIVE insertFrom(_, _, _, _)
insertFrom(d, word, i, c) ==
  IF i < Len(word)
  THEN LET b == word[i + 1]
           next == d.seq + 1
           d1 == [d EXCEPT
                    !.seq = next,
                    !.nodes = (next :> [F |-> FALSE, C |-> NoMap]) @@ @]
           d2 == [d1 EXCEPT
                    !.nodes[c].C = (b :> next) @@ @,
                    !.unchecked = Append(@, [p |-> c, c |-> next, b |-> b]),
                    !.spare = IF @ = <<>> THEN @ ELSE Tail(@)]
       IN insertFrom(d2, word, i + 1, next)
  ELSE [d EXCEPT !.nodes[c].F = TRUE]

\* The ordering check on the lengths of the words in place of their bytes.
outOfOrderByLength(word, prev) == Len(word) <= Len(prev)

\* The ordering check of Insert.
outOfOrder(word, prev) == StrLE(word, prev)

\* Insert that extends the graph from the root whatever the chain holds.
insertAtRoot(d, word) ==
  LET lcpLen == lcpLength(word, d.prevWord)
      d1 == minimize(d, lcpLen)
      d2 == [d1 EXCEPT !.prevWord = word]
  IN IF d1.panic THEN d1 ELSE insertFrom(d2, word, lcpLen, root)

\* (d *DAWG).Insert(word) past the ordering check: the builder's fields after it.
insert(d, word) ==
  LET lcpLen == lcpLength(word, d.prevWord)
      d1 == minimize(d, lcpLen)
      d2 == [d1 EXCEPT !.prevWord = word]
      c == IF Len(d2.unchecked) > 0
           THEN d2.unchecked[Len(d2.unchecked)].c
           ELSE root
  IN IF d1.panic THEN d1 ELSE insertFrom(d2, word, lcpLen, c)

DAWG ==
  [nodes |-> nodes, seq |-> seq, prevWord |-> prevWord,
   unchecked |-> unchecked, spare |-> spare, minimized |-> minimized,
   keyed |-> keyed, panic |-> FALSE]

Store(d) ==
  /\ nodes' = d.nodes
  /\ seq' = d.seq
  /\ prevWord' = d.prevWord
  /\ unchecked' = d.unchecked
  /\ spare' = d.spare
  /\ keyed' = d.keyed
  /\ minimized' = d.minimized

Init ==
  /\ nodes = (root :> [F |-> FALSE, C |-> NoMap])
  /\ seq = 0
  /\ prevWord = <<>>
  /\ unchecked = <<>>
  /\ spare = <<>>
  /\ keyed = <<>>
  /\ minimized = NoMap
  /\ panicked = FALSE
  /\ inserted = {}
  /\ finished = FALSE
  /\ pc = "idle"
  /\ q = NoQuery
  /\ curr = root
  /\ buf = <<>>
  /\ ret = NoRet

----------------------------------------------------------------------------
\* dawg.go: the queries

\* Lookup answering true wherever the word's path ends.
RECURSIVE lookupFromAnyNode(_, _, _, _)
lookupFromAnyNode(ns, word, j, c) ==
  IF j < Len(word)
  THEN LET b == word[j + 1]
       IN IF b \in DOMAIN ns[c].C
          THEN lookupFromAnyNode(ns, word, j + 1, ns[c].C[b])
          ELSE FALSE
  ELSE TRUE

\* (d *DAWG).Lookup(word), from byte j at node c.
RECURSIVE lookupFrom(_, _, _, _)
lookupFrom(ns, word, j, c) ==
  IF j < Len(word)
  THEN LET b == word[j + 1]
       IN IF b \in DOMAIN ns[c].C
          THEN lookupFrom(ns, word, j + 1, ns[c].C[b])
          ELSE FALSE
  ELSE ns[c].F

lookup(word) == lookupFrom(nodes, word, 0, root)

\* The first loop of LookupPrefix: the node the prefix leads to, or -1 when
\* an edge is missing.
RECURSIVE walkFrom(_, _, _, _)
walkFrom(ns, prefix, i, c) ==
  IF i < Len(prefix)
  THEN LET b == prefix[i + 1]
       IN IF b \in DOMAIN ns[c].C
          THEN walkFrom(ns, prefix, i + 1, ns[c].C[b])
          ELSE -1
  ELSE c

\* NodeCount that leaves out the root, which is not in the registry.
nodeCountNoRoot == Cardinality(DOMAIN minimized)

nodeCount == Cardinality(DOMAIN minimized) + 1

RECURSIVE edgeSum(_)
edgeSum(ks) ==
  IF ks = {} THEN 0
  ELSE LET k == CHOOSE x \in ks : TRUE
       IN Cardinality(DOMAIN nodes[minimized[k]].C) + edgeSum(ks \ {k})

\* EdgeCount that leaves out the root, which is not in the registry.
edgeCountNoRoot == edgeSum(DOMAIN minimized)

edgeCount == Cardinality(DOMAIN nodes[root].C) + edgeSum(DOMAIN minimized)

----------------------------------------------------------------------------
\* dawg.go: the exporter

\* The inner loop of Flatten: the edges of node, from the j-th of keys.
RECURSIVE flattenKeys(_, _, _, _)
flattenKeys(fs, node, keys, j) ==
  IF j < Len(keys)
  THEN LET b == keys[j + 1]
           c == nodes[node].C[b]
           fs1 == IF c \notin fs.seen
                  THEN [fs EXCEPT !.nodes = Append(@, c), !.seen = @ \cup {c}]
                  ELSE fs
           fs2 == [fs1 EXCEPT
                     !.to = Append(@, c),
                     !.hasChildren = Append(@, Cardinality(DOMAIN nodes[c].C) > 0),
                     !.result = Append(@, [Index |-> 0, B |-> b, F |-> nodes[c].F,
                                           EOL |-> (j = Len(keys) - 1)]),
                     !.index = @ + 1]
       IN flattenKeys(fs2, node, keys, j + 1)
  ELSE fs

\* The outer loop of Flatten recording a node's index after its edges have
\* been emitted.
RECURSIVE flattenNodesIndexAfter(_, _)
flattenNodesIndexAfter(fs, i) ==
  IF i < Len(fs.nodes)
  THEN LET node == fs.nodes[i + 1]
           fs1 == flattenKeys(fs, node, sortedKeys(nodes[node].C), 0)
       IN flattenNodesIndexAfter(
            [fs1 EXCEPT !.indexes = (node :> fs1.index) @@ @], i + 1)
  ELSE fs

\* The outer loop of Flatten, from the i-th of the nodes queued so far.
RECURSIVE flattenNodes(_, _)
flattenNodes(fs, i) ==
  IF i < Len(fs.nodes)
  THEN LET node == fs.nodes[i + 1]
           fs1 == [fs EXCEPT !.indexes = (node :> fs.index) @@ @]
       IN flattenNodes(flattenKeys(fs1, node, sortedKeys(nodes[node].C), 0), i + 1)
  ELSE fs

\* The last loop of Flatten without its test of hasChildren.
RECURSIVE flattenIndexesOfAll(_, _)
flattenIndexesOfAll(fs, i) ==
  IF i < Len(fs.result)
  THEN LET t == fs.to[i + 1]
           x == IF t \in DOMAIN fs.indexes THEN fs.indexes[t] ELSE 0
       IN flattenIndexesOfAll([fs EXCEPT !.result[i + 1].Index = x], i + 1)
  ELSE fs

\* The last loop of Flatten: the Index of the entries whose target has edges.
RECURSIVE flattenIndexes(_, _)
flattenIndexes(fs, i) ==
  IF i < Len(fs.result)
  THEN IF ~fs.hasChildren[i + 1]
       THEN flattenIndexes(fs, i + 1)
       ELSE LET t == fs.to[i + 1]
                x == IF t \in DOMAIN fs.indexes THEN fs.indexes[t] ELSE 0
            IN flattenIndexes([fs EXCEPT !.result[i + 1].Index = x], i + 1)
  ELSE fs

\* (d *DAWG).Flatten(): its locals when it returns.
flatten ==
  LET fs0 == [result |-> <<>>, to |-> <<>>, hasChildren |-> <<>>, seen |-> {},
              indexes |-> NoMap, index |-> 0, nodes |-> <<root>>]
  IN flattenIndexes(flattenNodes(fs0, 0), 0)

----------------------------------------------------------------------------
\* The operations

\* (d *DAWG).Insert(word), whenever it is called.
doInsert(word) ==
  /\ pc = "idle"
  /\ ~panicked
  /\ Cardinality(inserted) < MaxWords
  /\ IF outOfOrder(word, prevWord)
     THEN /\ panicked' = TRUE
          /\ UNCHANGED <<heap, hist>>
     ELSE LET d == insert(DAWG, word)
          IN /\ Store(d)
             /\ panicked' = d.panic
             /\ inserted' = IF d.panic THEN inserted ELSE inserted \cup {word}
             /\ finished' = FALSE
  /\ UNCHANGED query

\* Insert called as its comment asks: not after Finish.
Insert(word) == ~finished /\ doInsert(word)

\* Insert called after Finish, which nothing in the code prevents.
InsertAfterFinish(word) == finished /\ doInsert(word)

\* Finish that closes one entry of the chain only.
finishOneEntry(d) ==
  minimize(d, IF d.unchecked = <<>> THEN 0 ELSE Len(d.unchecked) - 1)

\* (d *DAWG).Finish().
finish(d) == minimize(d, 0)

Finish ==
  /\ pc = "idle"
  /\ ~panicked
  /\ LET d == finish(DAWG)
     IN /\ Store(d)
        /\ panicked' = d.panic
  /\ finished' = TRUE
  /\ UNCHANGED <<inserted, query>>

\* sort.Strings(words).
RECURSIVE sortStrings(_)
sortStrings(words) ==
  IF words = <<>> THEN <<>>
  ELSE LET i == CHOOSE i \in 1..Len(words) :
                  \A j \in 1..Len(words) : StrLE(words[i], words[j])
       IN <<words[i]>> \o
          sortStrings(SubSeq(words, 1, i - 1) \o SubSeq(words, i + 1, Len(words)))

\* The Inserts of FromReader from the i-th word on, with the Finish that
\* follows them: the builder's fields, and how many words were accepted.
RECURSIVE fromReaderFrom(_, _, _)
fromReaderFrom(d, words, i) ==
  IF i > Len(words) THEN [d |-> minimize(d, 0), n |-> i - 1, done |-> TRUE]
  ELSE IF outOfOrder(words[i], d.prevWord)
  THEN [d |-> [d EXCEPT !.panic = TRUE], n |-> i - 1, done |-> FALSE]
  ELSE LET d1 == insert(d, words[i])
       IN IF d1.panic THEN [d |-> d1, n |-> i - 1, done |-> FALSE]
          ELSE fromReaderFrom(d1, words, i + 1)

\* FromReader(r) on a reader that yields lines, or fails with an error: the
\* DAWG it builds is a new one.  It returns with ok when the error is nil;
\* a panic of Insert leaves the call unreturned.
FromReader(lines, err) ==
  /\ pc = "idle"
  /\ ~panicked
  /\ ~finished
  /\ inserted = {}
  /\ q' = [op |-> "FromReader", arg |-> <<>>]
  /\ IF err
     THEN /\ pc' = "returned"
          /\ ret' = NoRet
          /\ UNCHANGED <<heap, hist, panicked>>
     ELSE LET words == sortStrings(lines)
              r == fromReaderFrom(DAWG, words, 1)
          IN /\ Store(r.d)
             /\ panicked' = r.d.panic
             /\ inserted' = {words[i] : i \in 1..r.n}
             /\ finished' = (r.done /\ ~r.d.panic)
             /\ pc' = IF r.d.panic THEN pc ELSE "returned"
             /\ ret' = [NoRet EXCEPT !.ok = ~r.d.panic]
  /\ UNCHANGED <<curr, buf>>

Lookup(word) ==
  /\ pc = "idle"
  /\ ~panicked
  /\ pc' = "returned"
  /\ q' = [op |-> "Lookup", arg |-> word]
  /\ ret' = [NoRet EXCEPT !.ok = lookup(word)]
  /\ UNCHANGED <<heap, hist, panicked, curr, buf>>

NodeCount ==
  /\ pc = "idle"
  /\ ~panicked
  /\ pc' = "returned"
  /\ q' = [op |-> "NodeCount", arg |-> <<>>]
  /\ ret' = [NoRet EXCEPT !.n = nodeCount]
  /\ UNCHANGED <<heap, hist, panicked, curr, buf>>

EdgeCount ==
  /\ pc = "idle"
  /\ ~panicked
  /\ pc' = "returned"
  /\ q' = [op |-> "EdgeCount", arg |-> <<>>]
  /\ ret' = [NoRet EXCEPT !.n = edgeCount]
  /\ UNCHANGED <<heap, hist, panicked, curr, buf>>

Flatten ==
  /\ pc = "idle"
  /\ ~panicked
  /\ pc' = "returned"
  /\ q' = [op |-> "Flatten", arg |-> <<>>]
  /\ ret' = [NoRet EXCEPT !.flat = flatten.result]
  /\ UNCHANGED <<heap, hist, panicked, curr, buf>>

\* LookupPrefix up to its second loop.
LookupPrefixCall(prefix) ==
  /\ pc = "idle"
  /\ ~panicked
  /\ q' = [op |-> "LookupPrefix", arg |-> prefix]
  /\ LET c == walkFrom(nodes, prefix, 0, root)
     IN IF c = -1
        THEN /\ pc' = "returned"
             /\ ret' = NoRet
             /\ UNCHANGED <<curr, buf>>
        ELSE /\ pc' = "loop"
             /\ curr' = c
             /\ buf' = <<>>
             /\ UNCHANGED ret
  /\ UNCHANGED <<heap, hist, panicked>>

\* One test of the condition of `for !curr.F`, with the body it guards.  The
\* range over curr.C yields the map's entries in an order Go leaves open; over
\* an empty map the body runs no iteration and the condition is tested again.
LookupPrefixStep ==
  /\ pc = "loop"
  /\ IF nodes[curr].F
     THEN /\ pc' = "returned"
          /\ ret' = [NoRet EXCEPT !.ok = TRUE, !.str = buf]
          /\ UNCHANGED <<q, curr, buf>>
     ELSE IF DOMAIN nodes[curr].C # {}
     THEN /\ Len(buf) <= MaxLen  \* on a cycle buf grows for ever: cut it short
          /\ \E b \in DOMAIN nodes[curr].C :
               /\ buf' = Append(buf, b)
               /\ curr' = nodes[curr].C[b]
          /\ UNCHANGED <<pc, q, ret>>
     ELSE UNCHANGED query
  /\ UNCHANGED <<heap, hist, panicked>>

\* The caller takes the result of the query.
Return ==
  /\ pc = "returned"
  /\ pc' = "idle"
  /\ q' = NoQuery
  /\ ret' = NoRet
  /\ curr' = root
  /\ buf' = <<>>
  /\ UNCHANGED <<heap, hist, panicked>>

\* The most lines a reader yields.
MaxLines == 2

\* What a reader can yield: up to MaxLines lines, in any order, repeated or not.
LineLists == UNION {[1..n -> Words] : n \in 0..MaxLines}

Next ==
  \/ \E word \in Words : Insert(word)
  \/ Finish
  \/ /\ inserted = {}  \* FromReader makes its own DAWG
     /\ \E lines \in LineLists, err \in BOOLEAN : FromReader(lines, err)
  \/ \E word \in Words : Lookup(word)
  \/ NodeCount
  \/ EdgeCount
  \/ Flatten
  \/ \E prefix \in Words : LookupPrefixCall(prefix)
  \/ LookupPrefixStep
  \/ Return

Spec == Init /\ [][Next]_vars

\* The behaviours of a caller that also calls Insert after Finish.
UsageNext ==
  \/ Next
  \/ \E word \in Words : InsertAfterFinish(word)

UsageSpec == Init /\ [][UsageNext]_vars

\* key() as a function of a node's structure: two nodes of any flag, any
\* labels among a digit, another digit and '_', and any children among
\* identities of one and of several digits.
KeyLabels == {49, 50, 95}
KeyIDs == {1, 2, 212}

KeyNodes ==
  UNION {[F : BOOLEAN, C : [S -> KeyIDs]] : S \in SUBSET KeyLabels}

KeyInit ==
  /\ nodes \in [{1, 2} -> KeyNodes]
  /\ seq = 2
  /\ prevWord = <<>>
  /\ unchecked = <<>>
  /\ spare = <<>>
  /\ keyed = <<>>
  /\ minimized = NoMap
  /\ panicked = FALSE
  /\ inserted = {}
  /\ finished = FALSE
  /\ pc = "idle"
  /\ q = NoQuery
  /\ curr = root
  /\ buf = <<>>
  /\ ret = NoRet

\* n.key() called on its own.
KeyCall(n) ==
  /\ pc = "idle"
  /\ LET k == key(nodes, n)
     IN /\ q' = [op |-> "key", arg |-> n]
        /\ pc' = "returned"
        /\ ret' = [NoRet EXCEPT !.ok = ~k.panic, !.str = k.str]
  /\ UNCHANGED <<heap, hist, panicked, curr, buf>>

KeyNext ==
  \/ \E n \in DOMAIN nodes : KeyCall(n)
  \/ Return

KeySpec == KeyInit /\ [][KeyNext]_vars

\* A call that is running keeps running: the loop of LookupPrefix takes its
\* next step, and a call that has returned hands its result to the caller.
FairSpec == Spec /\ WF_vars(LookupPrefixStep) /\ WF_vars(Return)

----------------------------------------------------------------------------
\* What the properties speak of

IsPrefix(p, w) == Len(p) <= Len(w) /\ SubSeq(w, 1, Len(p)) = p

\* The nodes reached from the set S of nodes by zero or more edges.
RECURSIVE ReachFrom(_)
ReachFrom(S) ==
  LET T == S \cup UNION {{nodes[n].C[b] : b \in DOMAIN nodes[n].C} : n \in S}
  IN IF T = S THEN S ELSE ReachFrom(T)

Reach == ReachFrom({root})

Registered == {minimized[k] : k \in DOMAIN minimized}

\* The reference automaton of a set W of words: its states are the right
\* languages of the prefixes of W (of the empty prefix too: the initial state
\* always exists), its transitions the first bytes of each state's words.
RefPrefixes(W) ==
  {<<>>} \cup UNION {{SubSeq(w, 1, k) : k \in 0..Len(w)} : w \in W}

RightLang(W, p) ==
  {SubSeq(w, Len(p) + 1, Len(w)) : w \in {v \in W : IsPrefix(p, v)}}

RefStates(W) == {RightLang(W, p) : p \in RefPrefixes(W)}

RefEdges(W) ==
  UNION {{<<L, s[1]>> : s \in L \ {<<>>}} : L \in RefStates(W)}

Returned(name) == pc = "returned" /\ q.op = name

----------------------------------------------------------------------------
\* C1: whatever strictly increasing words Insert has accepted, before Finish
\* and after it, Lookup(w) is true exactly when w is one of them.
LookupIsMembership ==
  Returned("Lookup") => (ret.ok <=> q.arg \in inserted)

\* A finished automaton of MaxWords words, two of its edges sharing a node,
\* has refused a proper prefix of a member.
LookupIsMembershipWitness ==
  /\ Returned("Lookup")
  /\ finished
  /\ Cardinality(inserted) = MaxWords
  /\ \E n, m \in Reach : n # m /\
       \E b \in DOMAIN nodes[n].C, c \in DOMAIN nodes[m].C :
         nodes[n].C[b] = nodes[m].C[c]
  /\ ~ret.ok
  /\ q.arg # <<>>
  /\ \E w \in inserted : IsPrefix(q.arg, w)

\* C2: an Insert of a word that is less than or equal to the word inserted
\* before it panics and changes nothing of the builder.
OrderingViolationPanics ==
  [][\A word \in Words :
       (inserted # {} /\ StrLE(word, prevWord) /\ Insert(word))
         => (panicked' /\ UNCHANGED <<heap, inserted>>)]_vars

\* Insert has panicked on a builder that holds a word.
OrderingViolationPanicsWitness ==
  panicked /\ inserted # {} /\ ~finished

\* C3: an Insert before Finish panics only on an ordering violation: the first
\* Insert succeeds whatever the word, the empty one too, and so does every
\* Insert of a word greater than the one before it.
InsertFailsOnlyOnOrdering ==
  [][\A word \in Words :
       ((inserted = {} \/ ~StrLE(word, prevWord)) /\ Insert(word))
         => ~panicked']_vars

\* C4: after Finish no two nodes reachable from the root, the root included,
\* have the same terminal flag and the same edges, and the registry holds one
\* entry for each signature of the reachable nodes other than the root.
FinishedIsMinimal ==
  finished =>
    /\ \A n, m \in Reach : n # m => nodes[n] # nodes[m]
    /\ Cardinality(DOMAIN minimized) =
         Cardinality({nodes[n] : n \in Reach \ {root}})
    /\ \A n \in Reach \ {root} : n \in Registered

\* Finish has run over MaxWords words and left a node with two parents.
FinishedIsMinimalWitness ==
  /\ finished
  /\ Cardinality(inserted) = MaxWords
  /\ pc = "idle"
  /\ \E n, m \in Reach : n # m /\
       \E b \in DOMAIN nodes[n].C, c \in DOMAIN nodes[m].C :
         nodes[n].C[b] = nodes[m].C[c]

\* C5: on a finished automaton NodeCount is the number of states and
\* EdgeCount the number of transitions of the reference automaton of the
\* inserted words.
CountsMatchReference ==
  finished =>
    /\ Returned("NodeCount") => ret.n = Cardinality(RefStates(inserted))
    /\ Returned("EdgeCount") => ret.n = Cardinality(RefEdges(inserted))

\* {"1", "1_", "_"} (the shape of {"cat", "cats", "dog"}, shortened): the
\* leaf under "1_" is the leaf under "_", 3 nodes and 3 edges in all.
CountsMatchReferenceWitness ==
  /\ finished
  /\ Returned("NodeCount")
  /\ inserted = {<<49>>, <<49, 95>>, <<95>>}
  /\ ret.n = 3
  /\ edgeCount = 3
  /\ nodes[nodes[root].C[49]].C[95] = nodes[root].C[95]

\* The bytes LookupPrefix would gather from node c if it took the edge with
\* the lowest label at every step.
RECURSIVE LowestFrom(_)
LowestFrom(c) ==
  IF nodes[c].F \/ DOMAIN nodes[c].C = {} THEN <<>>
  ELSE LET b == SetMin(DOMAIN nodes[c].C)
       IN <<b>> \o LowestFrom(nodes[c].C[b])

\* C6: when some inserted word starts with prefix, LookupPrefix(prefix)
\* returns true and an inserted word that starts with prefix.
LookupPrefixReturnsWord ==
  (Returned("LookupPrefix") /\ \E w \in inserted : IsPrefix(q.arg, w))
    => (ret.ok /\ ret.str \in inserted /\ IsPrefix(q.arg, ret.str))

\* C7: every call of LookupPrefix returns, whatever the prefix and whatever
\* has been inserted, nothing included: each test of the loop's condition
\* either ends the loop or moves curr along an edge of the acyclic graph.
LookupPrefixTerminates ==
  pc = "loop" => ENABLED <<LookupPrefixStep>>_vars

\* The same as a property of the fair behaviours: a call that has started
\* returns.
LookupPrefixReturns ==
  (q.op = "LookupPrefix") ~> (pc = "returned")

\* C8: LookupPrefix follows the lowest label at every step, so what it returns
\* is fixed by the automaton and the prefix.
LookupPrefixLowestLabel ==
  (Returned("LookupPrefix") /\ ret.ok)
    => ret.str = LowestFrom(walkFrom(nodes, q.arg, 0, root))

\* The lookup over the flattened array: start at entry 0; scan the entries
\* until the label matches or an entry with EOL is passed; on a match at the
\* last byte the answer is the entry's F, otherwise go on at the entry's
\* Index, failing if the target is a leaf (Index 0).
RECURSIVE ArrayLookupFrom(_, _, _, _)
ArrayLookupFrom(a, w, j, i) ==
  IF i >= Len(a) THEN FALSE
  ELSE LET e == a[i + 1]
       IN IF e.B = w[j]
          THEN IF j = Len(w) THEN e.F
               ELSE IF e.Index = 0 THEN FALSE
               ELSE ArrayLookupFrom(a, w, j + 1, e.Index)
          ELSE IF e.EOL THEN FALSE
          ELSE ArrayLookupFrom(a, w, j, i + 1)

ArrayLookup(a, w) == IF w = <<>> THEN FALSE ELSE ArrayLookupFrom(a, w, 1, 0)

\* C9: on a finished automaton the lookup over Flatten()'s array answers as
\* Lookup does, for every word, and also when nothing was inserted.
FlattenedLookupAgrees ==
  (finished /\ Returned("Flatten"))
    => \A w \in Words : ArrayLookup(ret.flat, w) = lookup(w)

\* Flatten has run on a finished automaton in which a node with edges has
\* two parents, and the array lookup has found a word of MaxLen bytes.
FlattenedLookupAgreesWitness ==
  /\ finished
  /\ Returned("Flatten")
  /\ Cardinality(inserted) >= 2
  /\ \E i, j \in 1..Len(ret.flat) :
       i # j /\ ret.flat[i].Index = ret.flat[j].Index /\ ret.flat[i].Index > 0
  /\ \E w \in inserted : Len(w) = MaxLen /\ ArrayLookup(ret.flat, w)

\* The order in which Flatten visits the nodes.
Visited == flatten.nodes

OutDegree(n) == Cardinality(DOMAIN nodes[n].C)

RECURSIVE BlockStart(_, _)
BlockStart(Q, i) ==
  IF i = 1 THEN 0 ELSE BlockStart(Q, i - 1) + OutDegree(Q[i - 1])

Position(Q, n) == CHOOSE i \in 1..Len(Q) : Q[i] = n

\* Where a breadth-first walk first meets n: the position in Q of the first
\* node with an edge to n, and the lowest label of such an edge.
Discovery(Q, n) ==
  LET P == {i \in 1..Len(Q) : \E b \in DOMAIN nodes[Q[i]].C : nodes[Q[i]].C[b] = n}
      i == SetMin(P)
  IN <<i, SetMin({b \in DOMAIN nodes[Q[i]].C : nodes[Q[i]].C[b] = n})>>

PairLess(x, y) == x[1] < y[1] \/ (x[1] = y[1] /\ x[2] < y[2])

\* C10: Flatten visits the nodes reachable from the root breadth-first, each
\* once; the edges of a node are one block of entries in ascending order of
\* label, EOL is set on the last entry of a block and on no other, and an
\* entry's B and F are the label of its edge and the terminal flag of the
\* edge's target.
FlattenIsBreadthFirst ==
  Returned("Flatten") =>
    LET Q == Visited
        a == ret.flat
    IN /\ Q[1] = root
       /\ \A i, j \in 1..Len(Q) : i # j => Q[i] # Q[j]
       /\ {Q[i] : i \in 1..Len(Q)} = Reach
       /\ \A i, j \in 2..Len(Q) :
            i < j => PairLess(Discovery(Q, Q[i]), Discovery(Q, Q[j]))
       /\ Len(a) = BlockStart(Q, Len(Q)) + OutDegree(Q[Len(Q)])
       /\ \A i \in 1..Len(Q) :
            LET keys == SortAsc(DOMAIN nodes[Q[i]].C)
            IN \A j \in 1..Len(keys) :
                 LET e == a[BlockStart(Q, i) + j]
                 IN /\ e.B = keys[j]
                    /\ e.F = nodes[nodes[Q[i]].C[keys[j]]].F
                    /\ e.EOL = (j = Len(keys))

\* Flatten has visited a node that two parents share and a node with two
\* edges that is not the root.
FlattenIsBreadthFirstWitness ==
  /\ Returned("Flatten")
  /\ finished
  /\ \E n, m \in Reach : n # m /\
       \E b \in DOMAIN nodes[n].C, c \in DOMAIN nodes[m].C :
         nodes[n].C[b] = nodes[m].C[c]
  /\ \E n \in Reach \ {root} : OutDegree(n) = 2
  /\ Len(ret.flat) >= 4

\* C11: in Flatten's result the Index of an entry whose target has edges is
\* the position of the target's first entry, which is not 0, and the Index of
\* an entry whose target is a leaf is 0.
FlattenIndexIsFirstEdge ==
  Returned("Flatten") =>
    LET Q == Visited
        a == ret.flat
    IN \A i \in 1..Len(Q) :
         LET keys == SortAsc(DOMAIN nodes[Q[i]].C)
         IN \A j \in 1..Len(keys) :
              LET e == a[BlockStart(Q, i) + j]
                  t == nodes[Q[i]].C[keys[j]]
              IN /\ OutDegree(t) > 0 =>
                      (e.Index = BlockStart(Q, Position(Q, t)) /\ e.Index > 0)
                 /\ OutDegree(t) = 0 => e.Index = 0
                 /\ e.Index = 0 <=> OutDegree(t) = 0

\* Flatten has emitted an entry with an Index that is not 0 and an entry
\* with Index 0, on an automaton where two entries lead to one node.
FlattenIndexIsFirstEdgeWitness ==
  /\ Returned("Flatten")
  /\ \E i, j \in 1..Len(ret.flat) :
       i # j /\ ret.flat[i].Index = ret.flat[j].Index /\ ret.flat[i].Index > 1
  /\ \E i \in 1..Len(ret.flat) : ret.flat[i].Index = 0

Range(s) == {s[i] : i \in 1..Len(s)}

\* C12: whatever the order of its pairwise distinct lines, FromReader ends
\* without error or panic in a finished automaton that accepts the lines and
\* nothing else and has the node and edge counts of the reference automaton,
\* which are those of inserting the lines in sorted order.
FromReaderAnyOrder ==
  [][\A lines \in LineLists :
       (q'.op = "FromReader" /\ Cardinality(Range(lines)) = Len(lines)
          /\ FromReader(lines, FALSE))
         => /\ ~panicked'
            /\ ret'.ok
            /\ finished'
            /\ \A w \in Words : lookup(w)' <=> w \in Range(lines)
            /\ nodeCount' = Cardinality(RefStates(Range(lines)))
            /\ edgeCount' = Cardinality(RefEdges(Range(lines)))]_vars

\* The step is a call of, or a step of, an operation other than Insert.
OtherThanInsert ==
  \/ Finish
  \/ \E word \in Words : Lookup(word)
  \/ NodeCount
  \/ EdgeCount
  \/ Flatten
  \/ \E prefix \in Words : LookupPrefixCall(prefix)
  \/ LookupPrefixStep
  \/ Return

\* The terminal flag and the edges of every node, the registry and the set of
\* accepted words are after the step what they were before it.
AutomatonUnchanged ==
  /\ \A n \in DOMAIN nodes : nodes'[n] = nodes[n]
  /\ minimized' = minimized
  /\ \A w \in Words : lookup(w)' = lookup(w)

Children(n) == {nodes[n].C[b] : b \in DOMAIN nodes[n].C}

\* C14: in every state no node reached from the root is reached from one of
\* its own children, and no node has an edge to the root.
GraphIsAcyclic ==
  \A n \in Reach :
    /\ n \notin ReachFrom(Children(n))
    /\ root \notin Children(n)

\* A node is the child of two nodes, neither of them the root, and the root
\* has two edges.
GraphIsAcyclicWitness ==
  /\ Cardinality(Children(root)) = 2
  /\ \E n, m \in Reach \ {root} : n # m /\ Children(n) \cap Children(m) # {}


\* C15: whenever minimize has computed the key of a chain entry's child,
\* the registry held at that moment every child of that node.
MinimizeLeafToRoot ==
  \A i \in 1..Len(keyed) : keyed[i].canonical

\* minimize has computed the key of a node with an edge, and of a node that
\* it replaced by a registered one.
MinimizeLeafToRootWitness ==
  /\ \E i \in 1..Len(keyed) : DOMAIN keyed[i].node.C # {}
  /\ \E i \in 1..Len(keyed) : keyed[i].c \notin Registered

ChainChildren == {unchecked[i].c : i \in 1..Len(unchecked)}

\* C16: minimize computes the key of no node twice; every node but the root
\* is either a child of the chain or has had its key computed, never both,
\* so that after Finish each has had it computed once; and a node's flag and
\* edges are still what they were when its key was computed.
MinimizedExactlyOnce ==
  /\ \A i, j \in 1..Len(keyed) : keyed[i].c = keyed[j].c => i = j
  /\ \A i \in 1..Len(keyed) : keyed[i].c \notin ChainChildren
  /\ ~panicked => {keyed[i].c : i \in 1..Len(keyed)} \cup ChainChildren = 1..seq
  /\ \A i \in 1..Len(keyed) : nodes[keyed[i].c] = keyed[i].node

\* Three words are in, a node with an edge has had its key computed, and a
\* node of the chain has not.
MinimizedExactlyOnceWitness ==
  /\ Cardinality(inserted) = 3
  /\ \E i \in 1..Len(keyed) : DOMAIN keyed[i].node.C # {}
  /\ ChainChildren # {}


SameStructure(x, y) ==
  /\ x.F = y.F
  /\ DOMAIN x.C = DOMAIN y.C
  /\ \A b \in DOMAIN x.C : x.C[b] = y.C[b]

\* C17: key() returns, without panic, the same string for two nodes exactly
\* when they have the same terminal flag, the same edge labels and under
\* every label the same child, labels that are '_' or digits included.
KeyIsInjective ==
  Returned("key") =>
    /\ ret.ok
    /\ \A m \in DOMAIN nodes :
         (key(nodes, m).str = ret.str) <=> SameStructure(nodes[m], nodes[q.arg])

\* key() has returned for a node with the labels '1' and '_' and a child of
\* three digits, beside a node with the same labels and another child.
KeyIsInjectiveWitness ==
  /\ Returned("key")
  /\ \E m \in DOMAIN nodes :
       /\ DOMAIN nodes[m].C = {49, 95}
       /\ DOMAIN nodes[q.arg].C = {49, 95}
       /\ nodes[q.arg].C[49] = 212
       /\ nodes[m].C[49] # 212


\* C18: after Finish, Flatten returns as many entries as EdgeCount counts
\* and visits as many distinct nodes as NodeCount counts: the nodes of the
\* registry are exactly the nodes reached from the root other than the root.
FlattenCoversRegistry ==
  (finished /\ Returned("Flatten")) =>
    /\ Len(ret.flat) = edgeCount
    /\ Cardinality(Range(Visited)) = nodeCount
    /\ Range(Visited) = {root} \cup Registered
    /\ Registered = Reach \ {root}

\* Flatten has returned on a finished automaton of three words in which a
\* node was replaced by a registered one.
FlattenCoversRegistryWitness ==
  /\ finished
  /\ Returned("Flatten")
  /\ Cardinality(inserted) = 3
  /\ Cardinality(Registered) < seq


\* C19: before Finish the chain spells the previous word: it is as long as
\* prevWord, entry i bears the i-th byte of prevWord, the first entry's
\* parent is the root and every other entry's parent the child of the entry
\* before, each parent has the edge the entry records, the last child is
\* terminal, and no child of the chain is in the registry.
ChainSpellsPrevWord ==
  ~finished =>
    /\ Len(unchecked) = Len(prevWord)
    /\ \A i \in 1..Len(unchecked) :
         /\ unchecked[i].b = prevWord[i]
         /\ unchecked[i].p = IF i = 1 THEN root ELSE unchecked[i - 1].c
         /\ unchecked[i].b \in DOMAIN nodes[unchecked[i].p].C
         /\ nodes[unchecked[i].p].C[unchecked[i].b] = unchecked[i].c
    /\ unchecked # <<>> => nodes[unchecked[Len(unchecked)].c].F
    /\ ChainChildren \cap Registered = {}

\* Before Finish, the third word has been inserted after a shorter one, the
\* chain has two entries and the registry is not empty.
ChainSpellsPrevWordWitness ==
  /\ ~finished
  /\ Cardinality(inserted) = 3
  /\ Len(unchecked) = 2
  /\ Registered # {}


\* C20: the registry is consistent in every state: a registered node's key
\* is still the key it is registered under, its flag and edges being what
\* they were when the key was computed; distinct keys lead to distinct
\* nodes; and every registered node is reached from the root.
RegistryConsistent ==
  /\ \A k \in DOMAIN minimized : key(nodes, minimized[k]).str = k
  /\ \A i \in 1..Len(keyed) :
       keyed[i].c \in Registered => nodes[keyed[i].c] = keyed[i].node
  /\ \A k, l \in DOMAIN minimized : minimized[k] = minimized[l] => k = l
  /\ Registered \subseteq Reach

\* Before Finish the registry holds two nodes, one of them with an edge, and
\* a node has been replaced by a registered one.
RegistryConsistentWitness ==
  /\ ~finished
  /\ Cardinality(Registered) = 2
  /\ \E n \in Registered : DOMAIN nodes[n].C # {}
  /\ Cardinality(Registered) + Len(unchecked) < seq

====
